---- MODULE Spec2Model ----
(***************************************************************************)
(* A model of the go-dl downloader (downloader.go): one Downloader         *)
(* session, the goroutine that calls Download and then Resume, the N       *)
(* downloadPartial goroutines of a multiDownload, and a second goroutine   *)
(* that calls Pause at arbitrary moments (the signal handler of            *)
(* cmd/main.go, the pausing goroutine of TestParallelDownload).            *)
(*                                                                         *)
(* The remote resource holds contentSize bytes; the byte at offset k is    *)
(* modelled by the number k, so a file is a sequence of offsets and the    *)
(* output equals the resource iff it is <<0, 1, .., contentSize-1>>.       *)
(* Bytes that are not the resource's (an error body, a file left by an     *)
(* earlier run) are modelled by -1.                                        *)
(*                                                                         *)
(* NewFromConfig is modelled on its own (SpecConstruct): URLs and paths    *)
(* are sequences of characters, and the path functions it calls            *)
(* (path.Base, filepath.Ext, filepath.Dir, path.Join) are computed as the  *)
(* Go library computes them. SpecRestart is a process started in resume    *)
(* mode with the files an earlier, paused process left on disk.            *)
(***************************************************************************)
EXTENDS Integers, Sequences, FiniteSets, TLC

\* ------------------------------------------------------------- bounds
\* largest resource length
MaxLen == 5
\* largest configured concurrency
MaxN == 3
\* largest CopyBufferSize
MaxBuf == 2
\* how many times the pausing goroutine calls Pause
MaxPauses == 2
\* how many times the caller calls Resume after Download
MaxResumes == 1
\* length of the body of a 416 (range not satisfiable) response
ErrBodyLen == 1
\* longest part of a URL after "h://s/"
MaxUrlTail == 4
\* how many numbered names "name(n).ext" may exist beside the desired one
MaxRename == 2

\* ------------------------------------------------------------ helpers
Min(a, b) == IF a < b THEN a ELSE b

Max(a, b) == IF a > b THEN a ELSE b

\* n bytes that are not bytes of the resource
Garbage(n) == [k \in 1..n |-> -1]

\* the resource's bytes first..last (inclusive); empty when first > last
Bytes(first, last) == [k \in 1..(last - first + 1) |-> first + k - 1]

\* a file left at a .part path by an earlier run: longer than any segment
StaleFile == Garbage(MaxLen + 1)

\* write(2) of data at offset off of a file opened without O_APPEND and
\* without O_TRUNC: the bytes under the write are replaced, the rest stays
WriteAt(file, off, data) ==
    [k \in 1..Max(Len(file), off + Len(data)) |->
        IF k > off /\ k <= off + Len(data) THEN data[k - off] ELSE file[k]]

\* ------------------------------------------------ strings and paths
\* A string is the sequence of its characters.
\* strings.IndexRune: the index (from 0) of the first c in s, -1 if none
IndexRune(s, c) ==
    IF \E k \in 1..Len(s) : s[k] = c
       THEN (CHOOSE k \in 1..Len(s) :
                 s[k] = c /\ \A j \in 1..(k - 1) : s[j] # c) - 1
       ELSE -1

\* strings.LastIndex: the index (from 0) of the last c in s, -1 if none
LastIndex(s, c) ==
    IF \E k \in 1..Len(s) : s[k] = c
       THEN (CHOOSE k \in 1..Len(s) :
                 s[k] = c /\ \A j \in (k + 1)..Len(s) : s[j] # c) - 1
       ELSE -1

\* strings.TrimSuffix
TrimSuffix(s, suffix) ==
    IF /\ Len(suffix) <= Len(s)
       /\ SubSeq(s, Len(s) - Len(suffix) + 1, Len(s)) = suffix
       THEN SubSeq(s, 1, Len(s) - Len(suffix))
       ELSE s

\* the first loop of path.Base: trailing slashes are stripped
RECURSIVE StripTrailingSlashes(_)
StripTrailingSlashes(p) ==
    IF Len(p) > 0 /\ p[Len(p)] = "/"
       THEN StripTrailingSlashes(SubSeq(p, 1, Len(p) - 1))
       ELSE p

\* path.Base: the last element of the path; "." for the empty path, "/"
\* for a path of slashes only
PathBase(p) ==
    IF p = <<>>
       THEN <<".">>
       ELSE LET q == StripTrailingSlashes(p)
                r == SubSeq(q, LastIndex(q, "/") + 2, Len(q))
            IN  IF r = <<>> THEN <<"/">> ELSE r

\* filepath.Ext: the suffix that begins at the last dot of the last
\* element of the path; empty when that element has no dot
FilepathExt(p) ==
    IF LastIndex(p, ".") > LastIndex(p, "/")
       THEN SubSeq(p, LastIndex(p, ".") + 1, Len(p))
       ELSE <<>>

\* strings.Split(p, "/")
RECURSIVE Split(_)
Split(p) ==
    IF IndexRune(p, "/") = -1
       THEN <<p>>
       ELSE <<SubSeq(p, 1, IndexRune(p, "/"))>>
                \o Split(SubSeq(p, IndexRune(p, "/") + 2, Len(p)))

\* path.Clean, element by element: empty and "." elements are dropped, a
\* ".." element removes the element before it (at the root it is dropped,
\* at the start of a relative path it is kept)
RECURSIVE CleanElements(_, _, _)
CleanElements(elems, kept, rooted) ==
    IF elems = <<>>
       THEN kept
       ELSE LET e == Head(elems)
                rest == Tail(elems)
            IN  CASE e = <<>> \/ e = <<".">> ->
                         CleanElements(rest, kept, rooted)
                  [] e = <<".", ".">> ->
                         IF kept # <<>> /\ kept[Len(kept)] # <<".", ".">>
                            THEN CleanElements(rest,
                                     SubSeq(kept, 1, Len(kept) - 1), rooted)
                            ELSE IF rooted
                                    THEN CleanElements(rest, kept, rooted)
                                    ELSE CleanElements(rest,
                                             Append(kept, e), rooted)
                  [] OTHER -> CleanElements(rest, Append(kept, e), rooted)

\* strings.Join(elems, "/")
RECURSIVE JoinElements(_)
JoinElements(elems) ==
    IF elems = <<>>
       THEN <<>>
       ELSE IF Len(elems) = 1
               THEN elems[1]
               ELSE elems[1] \o <<"/">> \o JoinElements(Tail(elems))

\* path.Clean (filepath.Clean on a system whose separator is the slash)
PathClean(p) ==
    IF p = <<>>
       THEN <<".">>
       ELSE LET rooted == p[1] = "/"
                body == JoinElements(CleanElements(Split(p), <<>>, rooted))
                q == IF rooted THEN <<"/">> \o body ELSE body
            IN  IF q = <<>> THEN <<".">> ELSE q

\* filepath.Dir: all but the last element of the path, cleaned
FilepathDir(p) == PathClean(SubSeq(p, 1, LastIndex(p, "/") + 1))

\* path.Join of two elements: empty elements are ignored, the rest is
\* joined by a slash and cleaned
PathJoin(a, b) ==
    CASE a = <<>> /\ b = <<>> -> <<>>
      [] a = <<>> -> PathClean(b)
      [] b = <<>> -> PathClean(a)
      [] OTHER -> PathClean(a \o <<"/">> \o b)

\* the decimal digits
Digit == <<"0", "1", "2", "3", "4", "5", "6", "7", "8", "9">>

\* fmt.Sprintf("%d", n) for n >= 0
RECURSIVE Sprintd(_)
Sprintd(n) ==
    IF n < 10
       THEN <<Digit[n + 1]>>
       ELSE Sprintd(n \div 10) \o <<Digit[(n % 10) + 1]>>

\* getFilenameAndExt: the name without its extension, and the extension
getFilenameAndExt(fileName) ==
    <<TrimSuffix(fileName, FilepathExt(fileName)), FilepathExt(fileName)>>

\* detectFilename: path.Base of the whole URL, cut at its first '?'
detectFilename(url) ==
    LET filename == PathBase(url)
        index == IndexRune(filename, "?")
    IN  IF index # -1 THEN SubSeq(filename, 1, index) ELSE filename

VARIABLES
    URL,            \* config.URL
    HeadURL,        \* config.HeadURL
    OutFilename,    \* config.OutFilename
    files,          \* the paths that existed when the session was built
    server,         \* what HEAD answers: "ranges", "plain", "down", "badlen"
    contentSize,    \* the resource's length (Content-Length)
    Concurrency,    \* config.Concurrency
    CopyBufferSize, \* config.CopyBufferSize
    Resume,         \* config.Resume
    Paused,         \* d.Paused
    ctx,            \* d.context / d.cancel: "nil", "live", "done"
    cpc,            \* where the calling goroutine is
    ppc,            \* where the pausing goroutine is: "idle", "mid"
    pauses,         \* Pause calls finished
    resumes,        \* Resume calls made
    workers,        \* the downloadPartial goroutines of this invocation
    wg,             \* the counter of multiDownload's sync.WaitGroup
    exists,         \* the segment ordinals whose .part file exists
    part,           \* the contents of the .part files
    outExists,      \* whether the output file exists
    out,            \* the contents of the output file
    mi,             \* merge: 0 before the output is opened, then the ordinal
    moff,           \* merge: the output file's write offset
    bar,            \* the progress bar's cumulative byte count
    gets,           \* GET requests issued by the current invocation
    merged,         \* whether the current invocation entered merge
    retPaused,      \* d.Paused at the moment the last invocation returned
    stale           \* the .part files an earlier run left behind

\* what no step of a download changes: the server, the resource, the
\* configuration (but for its Resume flag) and the files of other programs
env == <<URL, HeadURL, OutFilename, files, server, contentSize, Concurrency,
         CopyBufferSize, stale>>

vars == <<env, Resume, Paused, ctx, cpc, ppc, pauses, resumes, workers, wg,
          exists, part, outExists, out, mi, moff, bar, gets, merged,
          retPaused>>

\* the resource
Source == Bytes(0, contentSize - 1)

Segs == 1..Concurrency

\* a goroutine that has not been started. Of a goroutine the model keeps
\* where it is (pc), its arguments (rs, re), the bytes it has copied (n),
\* how it returned (end), and the bytes it has copied since the context of
\* its Download was cancelled (late)
NoWorker ==
    [pc |-> "off", rs |-> 0, re |-> 0, n |-> 0, end |-> "none", late |-> 0]

\* the process has exited (log.Fatal) or crashed (panic)
Dead == cpc \in {"fatal", "panic"}

\* --------------------------------------------------------- construction
\* NewFromConfig: a concurrency below 1 becomes 1
ClampConcurrency(c) == IF c < 1 THEN 1 ELSE c

\* the scheme, the host and the root of the path of the URLs
UrlBase == <<"h", ":", "/", "/", "s", "/">>

\* the URL of the downloads: "h://s/a"
TestURL == UrlBase \o <<"a">>

\* The state after NewFromConfig returned a session. The output path does
\* not exist (renameFilenameIfNecessary picked an unused name); a .part
\* file of an earlier run may lie beside it, which no code of the
\* constructor looks at.
InitWith(servers, sizes, concurrencies, leftovers) ==
    /\ URL = TestURL
    /\ HeadURL = TestURL
    /\ OutFilename = detectFilename(TestURL)
    /\ files = {}
    /\ server \in servers
    /\ contentSize \in sizes
    /\ \E c \in concurrencies : Concurrency = ClampConcurrency(c)
    /\ CopyBufferSize \in 1..MaxBuf
    /\ Resume = FALSE
    /\ Paused = FALSE
    /\ ctx = "nil"
    /\ cpc = "idle"
    /\ ppc = "idle"
    /\ pauses = 0
    /\ resumes = 0
    /\ workers = [i \in Segs |-> NoWorker]
    /\ wg = 0
    /\ stale \in leftovers
    /\ exists = stale
    /\ part = [i \in Segs |-> IF i \in stale THEN StaleFile ELSE <<>>]
    /\ outExists = FALSE
    /\ out = <<>>
    /\ mi = 0
    /\ moff = 0
    /\ bar = 0
    /\ gets = 0
    /\ merged = FALSE
    /\ retPaused = FALSE

Init ==
    InitWith({"ranges", "plain", "down", "badlen"}, 0..MaxLen, 0..MaxN,
             {{}, {1}})

\* os.Stat(path) succeeds: the path names an existing file
Stat(path) == path # <<>> /\ PathClean(path) \in files

\* the loop of renameFilenameIfNecessary: the name with "(counter)" before
\* the extension, joined to the directory, until no such path exists
RECURSIVE RenameLoop(_, _, _, _)
RenameLoop(filename, ext, outDir, counter) ==
    LET newFilename ==
            filename \o <<"(">> \o Sprintd(counter) \o <<")">> \o ext
        renamed == PathJoin(outDir, newFilename)
    IN  IF Stat(renamed)
           THEN RenameLoop(filename, ext, outDir, counter + 1)
           ELSE renamed

\* renameFilenameIfNecessary: the output path the session will write to,
\* given the path the configuration asks for
renameFilenameIfNecessary(outFilename) ==
    IF Resume
       THEN outFilename
       ELSE IF Stat(outFilename)
               THEN RenameLoop(getFilenameAndExt(outFilename)[1],
                               getFilenameAndExt(outFilename)[2],
                               FilepathDir(outFilename), 1)
               ELSE outFilename

\* the CopyBufferSize NewFromConfig gives a configuration that has none
DefaultCopyBufferSize == 1024

\* a file some earlier program left at the output path: longer than any
\* resource
OldOutput == Garbage(MaxLen + 2)

\* a constructor that rejects no configuration
EmptyURLNever == FALSE

\* if config.URL == "" { return nil, errors.New(...) }
EmptyURL == URL = <<>>

\* NewFromConfig: an empty URL is an error; otherwise the defaults are
\* filled in, the output path is resolved and the session is returned
NewFromConfig ==
    /\ cpc = "new"
    /\ IF EmptyURL
          THEN /\ cpc' = "rejected"
               /\ UNCHANGED <<HeadURL, Concurrency, OutFilename,
                              CopyBufferSize, workers, part, outExists, out>>
          ELSE /\ cpc' = "idle"
               /\ HeadURL' = IF HeadURL = <<>> THEN URL ELSE HeadURL
               /\ Concurrency' = ClampConcurrency(Concurrency)
               /\ OutFilename' =
                      renameFilenameIfNecessary(
                          IF OutFilename = <<>>
                             THEN detectFilename(URL)
                             ELSE OutFilename)
               /\ CopyBufferSize' =
                      IF CopyBufferSize = 0
                         THEN DefaultCopyBufferSize
                         ELSE CopyBufferSize
               /\ workers' = [i \in 1..Concurrency' |-> NoWorker]
               /\ part' = [i \in 1..Concurrency' |-> <<>>]
               /\ outExists' = Stat(OutFilename')
               /\ out' = IF Stat(OutFilename') THEN OldOutput ELSE <<>>
    /\ UNCHANGED <<URL, files, server, contentSize, stale, Resume, Paused,
                   ctx, ppc, pauses, resumes, wg, exists, mi, moff, bar, gets,
                   merged, retPaused>>

\* the URLs "h://s/" followed by up to MaxUrlTail characters of a path
\* and a query
Urls ==
    {UrlBase \o t : t \in UNION {[1..n -> {"/", "?", "a", "b"}] :
                                    n \in 0..MaxUrlTail}}

\* the output paths a caller asks for: "a.t", "a", ".t", "d/a.t"
OutFilenames ==
    {<<"a", ".", "t">>, <<"a">>, <<".", "t">>, <<"d", "/", "a", ".", "t">>}

\* the name with "(n)" before its extension
Numbered(name, n) ==
    getFilenameAndExt(name)[1] \o <<"(">> \o Sprintd(n) \o <<")">>
        \o getFilenameAndExt(name)[2]

\* the paths that may exist when the session is built: the path asked for
\* and its numbered variants, beside it and where the rename loop looks
NearbyPaths(name) ==
    IF name = <<>>
       THEN {}
       ELSE {PathClean(name)}
            \cup {PathClean(Numbered(name, n)) : n \in 1..MaxRename}
            \cup {PathJoin(FilepathDir(name), Numbered(name, n)) :
                      n \in 1..MaxRename}

\* The configurations handed to NewFromConfig, and the files on disk then:
\* either no output name and any URL, or an output name (or none) with
\* every other field set or left at its zero value
InitConstruct ==
    /\ \/ /\ URL \in Urls
          /\ HeadURL = <<>>
          /\ OutFilename = <<>>
          /\ Concurrency = 1
          /\ CopyBufferSize = 1
       \/ /\ URL \in {<<>>, TestURL}
          /\ HeadURL \in {<<>>, UrlBase}
          /\ OutFilename \in OutFilenames \cup {<<>>}
          /\ Concurrency \in 0..MaxN
          /\ CopyBufferSize \in 0..MaxBuf
    /\ Resume \in BOOLEAN
    /\ files \in SUBSET NearbyPaths(IF OutFilename = <<>>
                                        THEN detectFilename(URL)
                                        ELSE OutFilename)
    /\ server = "ranges"
    /\ contentSize = MaxLen
    /\ Paused = FALSE
    /\ ctx = "nil"
    /\ cpc = "new"
    /\ ppc = "idle"
    /\ pauses = 0
    /\ resumes = 0
    /\ workers = [i \in Segs |-> NoWorker]
    /\ wg = 0
    /\ stale = {}
    /\ exists = {}
    /\ part = [i \in Segs |-> <<>>]
    /\ outExists = FALSE
    /\ out = <<>>
    /\ mi = 0
    /\ moff = 0
    /\ bar = 0
    /\ gets = 0
    /\ merged = FALSE
    /\ retPaused = FALSE

SpecConstruct == InitConstruct /\ [][NewFromConfig]_vars

\* ------------------------------------------------------------- Pause
\* Pause, first statement: d.Paused = true
PauseSet ==
    /\ ~Dead
    /\ ppc = "idle"
    /\ pauses < MaxPauses
    /\ Paused' = TRUE
    /\ ppc' = "mid"
    /\ UNCHANGED <<env, wg, retPaused, Resume, ctx, cpc, pauses, resumes, workers, exists, part,
                   outExists, out, mi, moff, bar, gets, merged>>

\* Pause, second statement: d.cancel(). Before the first Download d.cancel
\* is the nil func and the call panics; cancelling twice is a no-op.
PauseCancel ==
    /\ ~Dead
    /\ ppc = "mid"
    /\ IF ctx = "nil"
          THEN /\ cpc' = "panic"
               /\ ctx' = ctx
          ELSE /\ ctx' = "done"
               /\ cpc' = cpc
    /\ ppc' = "idle"
    /\ pauses' = pauses + 1
    /\ UNCHANGED <<env, wg, retPaused, Resume, Paused, resumes, workers, exists, part, outExists, out,
                   mi, moff, bar, gets, merged>>

\* ------------------------------------------------- Download and Resume
\* the caller invokes Download on the session it constructed
DownloadCall ==
    /\ cpc = "idle"
    /\ cpc' = "enter"
    /\ UNCHANGED <<env, wg, retPaused, Resume, Paused, ctx, ppc, pauses, resumes, workers, exists, part,
                   outExists, out, mi, moff, bar, gets, merged>>

\* Resume: config.Resume = true, d.Paused = false, then Download
ResumeCall ==
    /\ cpc = "ret"
    /\ resumes < MaxResumes
    /\ Resume' = TRUE
    /\ Paused' = FALSE
    /\ resumes' = resumes + 1
    /\ cpc' = "enter"
    /\ UNCHANGED <<env, wg, retPaused, ctx, ppc, pauses, workers, exists, part, outExists, out, mi,
                   moff, bar, gets, merged>>

\* Download, first statements: a fresh context and cancel func
NewContext ==
    /\ cpc = "enter"
    /\ ctx' = "live"
    /\ cpc' = "head"
    /\ gets' = 0
    /\ merged' = FALSE
    /\ workers' = [i \in Segs |-> NoWorker]
    /\ UNCHANGED <<env, wg, retPaused, Resume, Paused, ppc, pauses, resumes, exists, part, outExists,
                   out, mi, moff, bar>>

\* a Download that splits whenever HEAD answered
StrategyAlwaysSplit == IF server = "down" THEN "fatal" ELSE "multi"

\* Download after http.Head: fatal when the request failed; multiDownload
\* when the status is 200 and Accept-Ranges is bytes (fatal when the
\* Content-Length is no number); simpleDownload otherwise
Strategy ==
    CASE server = "down" -> "fatal"
      [] server = "badlen" -> "fatal"
      [] server = "ranges" -> "multi"
      [] OTHER -> "simple"

\* Download: the HEAD request and the choice of strategy
HeadRequest ==
    /\ cpc = "head"
    /\ cpc' = Strategy
    /\ UNCHANGED <<env, wg, retPaused, Resume, Paused, ctx, ppc, pauses, resumes, workers, exists, part,
                   outExists, out, mi, moff, bar, gets, merged>>

\* a simpleDownload that never refuses
RefuseResumeNever == FALSE

\* if d.config.Resume { log.Fatal(...) }, the first statement of
\* simpleDownload
RefuseResume == Resume

\* simpleDownload: refused in resume mode; otherwise one GET whose body is
\* copied to the output file, opened without O_TRUNC. The copy never
\* looks at the context.
simpleDownload ==
    /\ cpc = "simple"
    /\ IF RefuseResume
          THEN /\ cpc' = "fatal"
               /\ UNCHANGED <<outExists, out, bar, gets, retPaused>>
          ELSE /\ gets' = gets + 1
               /\ outExists' = TRUE
               /\ out' = WriteAt(out, 0, Source)
               /\ bar' = Len(Source)
               /\ cpc' = "ret"
               /\ retPaused' = Paused
    /\ UNCHANGED <<env, wg, Resume, Paused, ctx, ppc, pauses, resumes, workers, exists, part,
                   mi, moff, merged>>

\* ------------------------------------------------------ multiDownload
\* partSize := contentSize / d.config.Concurrency
PartSize == contentSize \div Concurrency

\* a loop that advances by partSize only: adjacent ranges share a byte
NextStartNoGap(startRange) == startRange + PartSize

\* startRange += partSize + 1, at the end of each round of the loop
NextStart(startRange) == startRange + PartSize + 1

\* startRange at the head of round i of the loop
RECURSIVE StartRange(_)
StartRange(i) == IF i = 1 THEN 0 ELSE NextStart(StartRange(i - 1))

\* the size of .part<i> when resuming and the file can be opened, else 0
Downloaded(i) == IF Resume /\ i \in exists THEN Len(part[i]) ELSE 0

\* the first argument of the i-th go d.downloadPartial(...)
RangeStart(i) == StartRange(i) + Downloaded(i)

\* a stop offset computed from the ordinal instead of startRange
RangeStopByOrdinal(i) ==
    IF i = Concurrency THEN contentSize ELSE i * PartSize

\* the second argument of the i-th go d.downloadPartial(...)
RangeStop(i) ==
    IF i = Concurrency THEN contentSize ELSE StartRange(i) + PartSize

\* the pre-credit of the on-disk sizes to the progress bar
RECURSIVE PreCredit(_)
PreCredit(i) == IF i = 0 THEN 0 ELSE PreCredit(i - 1) + Downloaded(i)

\* a wait group that counts one goroutine too few
WaitGroupAddShort == Concurrency - 1

\* wg.Add(d.config.Concurrency)
WaitGroupAdd == Concurrency

\* multiDownload up to wg.Wait(): a new wait group and a new bar, and for
\* each ordinal the resume adjustment and the start of its goroutine
Spawn ==
    /\ cpc = "multi"
    /\ wg' = WaitGroupAdd
    /\ bar' = PreCredit(Concurrency)
    /\ workers' = [i \in Segs |->
                      [pc |-> "start", rs |-> RangeStart(i),
                       re |-> RangeStop(i), n |-> 0, end |-> "none",
                       late |-> 0]]
    /\ cpc' = "wait"
    /\ UNCHANGED <<env, retPaused, Resume, Paused, ctx, ppc, pauses, resumes, exists, part,
                   outExists, out, mi, moff, gets, merged>>

\* ---------------------------------------------------- downloadPartial
\* the body of the response to GET with Range: bytes=rs-re. A range that
\* starts at or past the end of the resource is not satisfiable: the
\* response is a 416 whose body is an error text (the status is never
\* looked at). Otherwise the range is cut at the last byte.
Response(rs, re) ==
    IF rs >= contentSize
       THEN Garbage(ErrBodyLen)
       ELSE Bytes(rs, Min(re, contentSize - 1))

\* rangeStart >= rangeStop: nothing to download
NothingToDownload(rs, re) == rs >= re

\* downloadPartial up to the copy loop: a no-op (the return runs the
\* deferred wg.Done()), or the request and the opening of the segment
\* file (created when missing, never truncated)
WorkerStart(i) ==
    /\ ~Dead
    /\ workers[i].pc = "start"
    /\ IF NothingToDownload(workers[i].rs, workers[i].re)
          THEN /\ workers' = [workers EXCEPT ![i].pc = "done",
                                             ![i].end = "noop"]
               /\ wg' = wg - 1
               /\ UNCHANGED <<gets, exists>>
          ELSE /\ workers' = [workers EXCEPT ![i].pc = "select"]
               /\ gets' = gets + 1
               /\ exists' = exists \cup {i}
               /\ wg' = wg
    /\ UNCHANGED <<env, retPaused, Resume, Paused, ctx, cpc, ppc, pauses, resumes, part, outExists,
                   out, mi, moff, bar, merged>>

\* a select that never takes the Done case
CancelledNever == FALSE

\* case <-d.context.Done(): the context has been cancelled
Cancelled == ctx = "done"

\* the select of the copy loop: return, through the deferred wg.Done(),
\* when the context is done
WorkerSelect(i) ==
    /\ ~Dead
    /\ workers[i].pc = "select"
    /\ IF Cancelled
          THEN /\ workers' = [workers EXCEPT ![i].pc = "done",
                                             ![i].end = "cancel"]
               /\ wg' = wg - 1
          ELSE /\ workers' = [workers EXCEPT ![i].pc = "copy"]
               /\ wg' = wg
    /\ UNCHANGED <<env, retPaused, Resume, Paused, ctx, cpc, ppc, pauses, resumes, exists, part,
                   outExists, out, mi, moff, bar, gets, merged>>

\* where the next write to the segment file lands: at its end with
\* O_APPEND (resume mode), else at the file offset, which starts at 0
WriteOffset(i) == IF Resume THEN Len(part[i]) ELSE workers[i].n

\* io.CopyN of CopyBufferSize bytes to the file and the bar: the chunk is
\* what is left of the body, at most CopyBufferSize bytes; a short chunk
\* is io.EOF and ends the goroutine
WorkerCopy(i) ==
    /\ ~Dead
    /\ workers[i].pc = "copy"
    /\ LET body  == Response(workers[i].rs, workers[i].re)
           k     == Min(CopyBufferSize, Len(body) - workers[i].n)
           chunk == SubSeq(body, workers[i].n + 1, workers[i].n + k)
           late  == IF ctx = "done" THEN k ELSE 0
       IN  /\ part' = [part EXCEPT ![i] = WriteAt(@, WriteOffset(i), chunk)]
           /\ bar' = bar + k
           /\ wg' = IF k < CopyBufferSize THEN wg - 1 ELSE wg
           /\ workers' = IF k < CopyBufferSize
                            THEN [workers EXCEPT ![i].pc = "done",
                                                 ![i].end = "eof",
                                                 ![i].n = @ + k,
                                                 ![i].late = @ + late]
                            ELSE [workers EXCEPT ![i].pc = "select",
                                                 ![i].n = @ + k,
                                                 ![i].late = @ + late]
    /\ UNCHANGED <<env, retPaused, Resume, Paused, ctx, cpc, ppc, pauses, resumes, exists,
                   outExists, out, mi, moff, gets, merged>>

\* ------------------------------------------------- join and merge
\* a join that never skips the merge
SkipMergeNever == FALSE

\* if !d.Paused { d.merge() }: the merge is skipped when the flag is set
SkipMerge == Paused

\* wg.Wait() returns once the counter is zero (every goroutine ran its
\* deferred wg.Done()); then the merge, unless it is skipped
Join ==
    /\ cpc = "wait"
    /\ wg = 0
    /\ IF SkipMerge
          THEN /\ cpc' = "ret"
               /\ retPaused' = TRUE
               /\ UNCHANGED <<merged, mi, moff>>
          ELSE /\ cpc' = "merge"
               /\ merged' = TRUE
               /\ mi' = 0
               /\ moff' = 0
               /\ UNCHANGED retPaused
    /\ UNCHANGED <<env, wg, Resume, Paused, ctx, ppc, pauses, resumes, workers, exists, part,
                   outExists, out, bar, gets>>

\* merge: the output file is opened, created when missing, not truncated
MergeOpen ==
    /\ cpc = "merge"
    /\ mi = 0
    /\ outExists' = TRUE
    /\ mi' = 1
    /\ UNCHANGED <<env, wg, retPaused, Resume, Paused, ctx, cpc, ppc, pauses, resumes, workers, exists,
                   part, out, moff, bar, gets, merged>>

\* merge, one round of the loop: .part<mi> is opened (fatal when it does
\* not exist), copied to the output and removed
MergeStep ==
    /\ cpc = "merge"
    /\ mi >= 1
    /\ IF mi \notin exists
          THEN /\ cpc' = "fatal"
               /\ UNCHANGED <<out, moff, exists, part, mi, retPaused>>
          ELSE /\ out' = WriteAt(out, moff, part[mi])
               /\ moff' = moff + Len(part[mi])
               /\ exists' = exists \ {mi}
               /\ part' = [part EXCEPT ![mi] = <<>>]
               /\ mi' = mi + 1
               /\ cpc' = IF mi = Concurrency THEN "ret" ELSE "merge"
               /\ retPaused' = IF mi = Concurrency THEN Paused ELSE retPaused
    /\ UNCHANGED <<env, wg, Resume, Paused, ctx, ppc, pauses, resumes, workers, outExists,
                   bar, gets, merged>>

\* ------------------------------------------------------ specification
Next ==
    \/ PauseSet
    \/ PauseCancel
    \/ DownloadCall
    \/ ResumeCall
    \/ NewContext
    \/ HeadRequest
    \/ simpleDownload
    \/ Spawn
    \/ \E i \in Segs : WorkerStart(i)
    \/ \E i \in Segs : WorkerSelect(i)
    \/ \E i \in Segs : WorkerCopy(i)
    \/ Join
    \/ MergeOpen
    \/ MergeStep

Spec == Init /\ [][Next]_vars

\* a step of the i-th downloadPartial goroutine
WorkerStep(i) ==
    /\ i \in Segs
    /\ (WorkerStart(i) \/ WorkerSelect(i) \/ WorkerCopy(i))

\* The Go scheduler runs every runnable goroutine, and every chunk read or
\* write completes: a worker that can step does, a Pause that set the
\* flag goes on to call cancel, and a wg.Wait whose counter is zero returns.
Fairness ==
    /\ \A i \in 1..MaxN : WF_vars(WorkerStep(i))
    /\ WF_vars(PauseCancel)
    /\ WF_vars(Join)

FairSpec == Spec /\ Fairness

\* the concurrency of TestParallelDownload
TestConcurrency == 4

\* Downloads that nothing pauses, of a non-empty range-capable resource,
\* with concurrency 1 and with the concurrency of TestParallelDownload
InitUninterrupted ==
    InitWith({"ranges"}, 1..(MaxLen + 2), {1, TestConcurrency}, {{}})

NextUninterrupted ==
    \/ DownloadCall
    \/ NewContext
    \/ HeadRequest
    \/ Spawn
    \/ \E i \in Segs : WorkerStart(i)
    \/ \E i \in Segs : WorkerSelect(i)
    \/ \E i \in Segs : WorkerCopy(i)
    \/ Join
    \/ MergeOpen
    \/ MergeStep

SpecUninterrupted == InitUninterrupted /\ [][NextUninterrupted]_vars

\* the beginnings of a sequence
Prefixes(s) == {SubSeq(s, 1, k) : k \in 0..Len(s)}

\* the segments for which a Download that is not resuming fetches bytes
Fetching == {i \in Segs : ~NothingToDownload(StartRange(i), RangeStop(i))}

\* A process started in resume mode (the -resume flag of cmd/main.go)
\* after an earlier process was paused: some workers of the earlier
\* Download had opened their segment files and fetched a beginning of
\* their ranges, and a file of an earlier download may lie at the output
\* path, which renameFilenameIfNecessary leaves in place in resume mode.
InitRestart ==
    /\ URL = TestURL
    /\ HeadURL = TestURL
    /\ OutFilename = detectFilename(TestURL)
    /\ server = "ranges"
    /\ contentSize \in 1..MaxLen
    /\ Concurrency \in 1..MaxN
    /\ CopyBufferSize \in 1..MaxBuf
    /\ Resume = TRUE
    /\ Paused = FALSE
    /\ ctx = "nil"
    /\ cpc = "idle"
    /\ ppc = "idle"
    /\ pauses = 0
    /\ resumes = 0
    /\ workers = [i \in Segs |-> NoWorker]
    /\ wg = 0
    /\ stale = {}
    /\ exists \in SUBSET Fetching
    /\ part \in [Segs -> UNION {Prefixes(Response(StartRange(i),
                                                  RangeStop(i))) :
                                    i \in Segs}]
    /\ \A i \in Segs :
           IF i \in exists
              THEN part[i] \in Prefixes(Response(StartRange(i),
                                                 RangeStop(i)))
              ELSE part[i] = <<>>
    /\ outExists \in BOOLEAN
    /\ out = IF outExists THEN OldOutput ELSE <<>>
    /\ files = IF outExists THEN {OutFilename} ELSE {}
    /\ mi = 0
    /\ moff = 0
    /\ bar = 0
    /\ gets = 0
    /\ merged = FALSE
    /\ retPaused = FALSE

SpecRestart == InitRestart /\ [][NextUninterrupted]_vars

\* ============================================================ claims
\* Download got its HEAD response and has ended: it returned, or the
\* process died in log.Fatal
Ended == cpc \in {"ret", "fatal"}

\* the segments whose passed range, read as an inclusive byte range,
\* holds offset k
Holders(k) == {i \in Segs : workers[i].rs <= k /\ k <= workers[i].re}

\* C4: in a non-resume Download, the N ranges handed to the workers, read
\* as inclusive byte ranges, hold every offset of [0, contentSize) exactly
\* once.
C4_RangesCoverEachOffsetOnce ==
    (cpc = "wait" /\ ~Resume) =>
        \A k \in 0..(contentSize - 1) : Cardinality(Holders(k)) = 1

\* C4's case: three workers were started for five bytes (5 = 3*1 + 2)
C4_Witness ==
    /\ cpc = "wait"
    /\ ~Resume
    /\ Concurrency = 3
    /\ contentSize = 5
    /\ \A i \in Segs : workers[i].pc = "start"

\* C3 as stated: a Download of a range-capable, non-empty resource that
\* nothing pauses, with no .part file left by an earlier run, ends with
\* the output file equal to the resource, for every length and concurrency.
C3_UninterruptedDownloadReproduces ==
    (/\ server = "ranges"
     /\ contentSize >= 1
     /\ stale = {}
     /\ resumes = 0
     /\ pauses = 0
     /\ ppc = "idle"
     /\ Ended) => (outExists /\ out = Source)

\* an uninterrupted Download of this resource with this concurrency gives
\* every segment a range inside the resource
FreshFits == StartRange(Concurrency) < contentSize

\* no worker of the current invocation returned on the cancellation signal
NoneCancelled == \A i \in Segs : workers[i].end \in {"eof", "noop"}

\* C1 as stated: whatever the pauses left on disk, a Resume that runs to
\* completion (every worker ended by end-of-stream or as a no-op, merge
\* ran, Resume returned) leaves the output equal to the resource, as an
\* uninterrupted Download of it does.
C1_ResumeReproduces ==
    (/\ server = "ranges"
     /\ stale = {}
     /\ FreshFits
     /\ resumes >= 1
     /\ cpc = "ret"
     /\ merged
     /\ NoneCancelled) => out = Source

\* C2 as stated: merge is never entered in an invocation one of whose
\* workers returned because it saw the cancellation signal.
C2_NoMergeAfterCancelledWorker ==
    merged => \A i \in Segs : workers[i].end # "cancel"

\* the number of bytes of the resource in segment i's target range
TargetSize(i) ==
    Cardinality({k \in 0..(contentSize - 1) :
                    StartRange(i) <= k /\ k <= RangeStop(i)})

\* the size of .part<i> on disk (0 when there is no such file)
DiskSize(i) == IF i \in exists THEN Len(part[i]) ELSE 0

\* C5 as stated: when a multi-segment Download has returned paused, no
\* segment file that a worker of it wrote to is larger than its segment's
\* target range; and a worker
\* started by the following Resume is asked for the range that begins at
\* its original start plus the size of its segment file.
C5_PausedSizesAndResumeStarts ==
    /\ (server = "ranges" /\ cpc = "ret" /\ retPaused /\ ~merged) =>
           \A i \in Segs : workers[i].end \in {"eof", "cancel"} =>
               DiskSize(i) <= TargetSize(i)
    /\ (cpc = "wait" /\ Resume) =>
           \A i \in Segs : workers[i].pc = "start" =>
               workers[i].rs = StartRange(i) + DiskSize(i)

\* Pause has set the flag while multiDownload waits for its workers
C6_PausedWhileRunning == cpc = "wait" /\ ppc = "mid" /\ Paused

\* Download has returned paused: every worker is back, merge was skipped
\* and every file a worker opened is still on disk
C6_ReturnedPaused ==
    /\ cpc = "ret"
    /\ retPaused
    /\ ~merged
    /\ \A i \in Segs : workers[i].pc = "done"
    /\ \A i \in Segs : workers[i].end # "noop" => i \in exists

\* C6: once Pause has set the flag during a running multi-segment
\* Download, every worker eventually returns, the join completes and
\* Download returns with the flag set, the merge skipped and the segment
\* files on disk.
C6_PauseStopsAllSegments == C6_PausedWhileRunning ~> C6_ReturnedPaused

\* C6's case: the flag is set while three workers are copying and none has
\* returned
C6_Witness ==
    /\ C6_PausedWhileRunning
    /\ Concurrency = 3
    /\ \A i \in Segs : workers[i].pc \in {"select", "copy"}

\* C7 as stated, for a non-empty resource and no leftover file: when
\* Download returns with the flag set after a Pause cancelled its context,
\* the invocation stopped early and left resumable state (a segmented
\* transfer whose merge did not run); when it returns with the flag clear,
\* the output is complete and no segment file remains.
C7_PausedFlagTellsOutcome ==
    (cpc = "ret" /\ stale = {} /\ contentSize >= 1) =>
        IF retPaused /\ ctx = "done"
           THEN server = "ranges" /\ ~merged
           ELSE outExists /\ out = Source /\ exists = {}

\* C8 as stated, for the Idle session: a Pause that returns before Download
\* was called leaves the caller where it was (no crash).
C8_PauseWhenIdleHarmless ==
    [][(cpc = "idle" /\ PauseCancel) => cpc' = "idle"]_vars

\* nothing of the segmented path has happened: no worker was started, no
\* segment file was created, merge was not entered
NoSegmentWork ==
    /\ \A i \in Segs : workers[i].pc = "off"
    /\ exists = stale
    /\ ~merged

\* the whole-file fetch happened: one GET, its body in the output file,
\* and Download returned
OneWholeFileGet ==
    /\ cpc = "ret"
    /\ gets = 1
    /\ outExists
    /\ out = Source

\* C9 as stated: against a server that is not range-capable every Download
\* ends having done exactly one whole-file GET into the output path and
\* no segment work.
C9_FallbackAlways ==
    server = "plain" => (NoSegmentWork /\ (Ended => OneWholeFileGet))

\* C9 amended: the same for every Download that is not in resume mode; in
\* resume mode there is no segment work either.
C9_FallbackWhenNotResuming ==
    server = "plain" =>
        (NoSegmentWork /\ ((Ended /\ ~Resume) => OneWholeFileGet))

\* C9's case: a Download with concurrency 3 against a server without
\* Accept-Ranges has returned
C9_Witness ==
    /\ server = "plain"
    /\ Concurrency = 3
    /\ contentSize = MaxLen
    /\ cpc = "ret"
    /\ ~Resume

\* With concurrency 1 an uninterrupted Download of a non-empty resource
\* issues one GET and leaves the resource in the output (not a claim's
\* formula: the half of C10 that holds).
C10_ConcurrencyOne ==
    (Concurrency = 1 /\ Ended) => OneWholeFileGet

\* C10 as stated: an uninterrupted Download with concurrency 1 issues a
\* single GET, and its output is that of a concurrency-4 Download of the
\* same resource. The output with concurrency 1 is the resource
\* (C10_ConcurrencyOne), so the output with concurrency 4 has to be the
\* resource too.
C10_OneGetAndSameOutputAsFour ==
    Ended => /\ Concurrency = 1 => gets = 1
             /\ out = Source

\* C11: while the session is in resume mode against a server that is not
\* range-capable, no step issues a GET, none creates or changes the output
\* file or a segment file, and the step that leaves simpleDownload is the
\* fatal exit.
C11_ResumeRefusedBeforeAnyIO ==
    [][(server = "plain" /\ Resume') =>
           /\ gets' <= gets
           /\ UNCHANGED <<outExists, out, exists, part>>
           /\ ((cpc = "simple" /\ cpc' # cpc) => cpc' = "fatal")]_vars

\* C11's case: Resume was called after a whole-file download of the
\* largest resource, and died in simpleDownload
C11_Witness ==
    /\ server = "plain"
    /\ Resume
    /\ cpc = "fatal"
    /\ contentSize = MaxLen
    /\ gets = 0
    /\ out = Source

\* C12: NewFromConfig with an empty URL returns the error and no session,
\* in that one step, and leaves every field of the configuration and
\* every file as it was.
C12_EmptyURLRejectedUntouched ==
    [][(cpc = "new" /\ URL = <<>>) =>
           /\ cpc' = "rejected"
           /\ UNCHANGED <<URL, HeadURL, Concurrency, OutFilename,
                          CopyBufferSize, Resume, files, outExists, out,
                          exists, part>>]_vars

\* C12's case: a configuration without URL, every field of which the
\* constructor would have filled in, was rejected
C12_Witness ==
    /\ cpc = "rejected"
    /\ URL = <<>>
    /\ HeadURL = <<>>
    /\ OutFilename = <<>>
    /\ Concurrency = 0
    /\ CopyBufferSize = 0

\* the output path the configuration asks for: its OutFilename, or the
\* name detected from the URL when it has none
Desired == IF OutFilename = <<>> THEN detectFilename(URL) ELSE OutFilename

\* the smallest n >= 1 for which the name numbered n does not exist
SmallestFree(name) ==
    CHOOSE n \in 1..(Cardinality(files) + 1) :
        /\ ~Stat(Numbered(name, n))
        /\ \A k \in 1..(n - 1) : Stat(Numbered(name, k))

\* C13 as stated: the session NewFromConfig returns writes to the desired
\* path when that path does not exist or the session is in resume mode;
\* otherwise to the desired path with "(n)" before its extension, in the
\* same directory, for the smallest n >= 1 whose path does not exist, and
\* that path does not exist.
C13_FilenameResolution ==
    [][(cpc = "new" /\ cpc' = "idle") =>
           IF ~Resume /\ Stat(Desired)
              THEN /\ PathClean(OutFilename') =
                          PathClean(Numbered(Desired, SmallestFree(Desired)))
                   /\ ~Stat(OutFilename')
              ELSE OutFilename' = Desired]_vars

\* the same for desired paths without a directory (not a claim's formula:
\* the part of C13 that holds)
C13_InWorkingDirectory ==
    [][(cpc = "new" /\ cpc' = "idle" /\ IndexRune(Desired, "/") = -1) =>
           IF ~Resume /\ Stat(Desired)
              THEN /\ PathClean(OutFilename') =
                          PathClean(Numbered(Desired, SmallestFree(Desired)))
                   /\ ~Stat(OutFilename')
              ELSE OutFilename' = Desired]_vars

\* the URL without its query string: cut at the first '?'
WithoutQuery(url) ==
    IF IndexRune(url, "?") = -1
       THEN url
       ELSE SubSeq(url, 1, IndexRune(url, "?"))

\* the last segment of the URL's path: what follows the last '/' before
\* the query string
LastPathSegment(url) ==
    SubSeq(WithoutQuery(url), LastIndex(WithoutQuery(url), "/") + 2,
           Len(WithoutQuery(url)))

\* C14 as stated, for the URLs whose path ends in a non-empty segment: a
\* session built without an output name, where nothing forces a rename,
\* writes to the last segment of the URL's path, without the query string.
C14_FilenameFromURL ==
    [][(/\ cpc = "new"
        /\ cpc' = "idle"
        /\ OutFilename = <<>>
        /\ files = {}
        /\ LastPathSegment(URL) # <<>>) =>
           OutFilename' = LastPathSegment(URL)]_vars

\* the same for the URLs whose query string holds no '/' (not a claim's
\* formula: the part of C14 that holds)
C14_QueryWithoutSlash ==
    [][(/\ cpc = "new"
        /\ cpc' = "idle"
        /\ OutFilename = <<>>
        /\ files = {}
        /\ LastPathSegment(URL) # <<>>
        /\ (IndexRune(URL, "?") = -1
               \/ LastIndex(URL, "/") < IndexRune(URL, "?"))) =>
           OutFilename' = LastPathSegment(URL)]_vars

\* C15: a worker copies at most one chunk, that is at most CopyBufferSize
\* bytes, after the context of its Download was cancelled; and a worker
\* that is at the select with the context cancelled copies nothing more.
C15_AtMostOneChunkAfterCancel ==
    /\ \A i \in Segs : workers[i].late <= CopyBufferSize
    /\ \A i \in Segs :
           (ctx = "done" /\ workers[i].pc = "select") =>
               workers[i].late \in {0, CopyBufferSize}
    /\ \A i \in Segs :
           (workers[i].late > 0 /\ workers[i].pc = "done") =>
               workers[i].end \in {"cancel", "eof"}

\* C15's case: with chunks of two bytes, a worker that was inside a copy
\* when Pause cancelled the context wrote that chunk, came back to the
\* select and returned, with bytes of its range still missing
C15_Witness ==
    /\ ctx = "done"
    /\ CopyBufferSize = 2
    /\ \E i \in Segs :
           /\ workers[i].end = "cancel"
           /\ workers[i].late = 2
           /\ workers[i].n < Len(Response(workers[i].rs, workers[i].re))

\* the workers of the current invocation that are started and not back
Running == {i \in Segs : workers[i].pc \notin {"off", "done"}}

\* C16: while multiDownload waits, one worker per ordinal 1..Concurrency
\* has been started; the wait group's counter is the number of workers
\* that have not returned (each signalled once, on its return); and once
\* multiDownload is past the join (it read the flag and entered the merge
\* or returned), every one of the N workers has returned, by
\* end-of-stream, as a no-op or on the cancellation signal.
C16_JoinAfterAllWorkers ==
    /\ cpc = "wait" =>
           /\ DOMAIN workers = 1..Concurrency
           /\ \A i \in Segs : workers[i].pc # "off"
    /\ cpc \in {"wait", "merge", "ret"} => wg = Cardinality(Running)
    /\ (server = "ranges" /\ (cpc \in {"merge", "ret"} \/ merged)) =>
           \A i \in Segs :
               /\ workers[i].pc = "done"
               /\ workers[i].end \in {"eof", "noop", "cancel"}

\* C16's case: three workers, one back by end-of-stream, one as a no-op and
\* one on the cancellation signal, and multiDownload past the join
C16_Witness ==
    /\ Concurrency = 3
    /\ cpc = "ret"
    /\ wg = 0
    /\ {workers[i].end : i \in Segs} = {"eof", "noop", "cancel"}

\* the bytes of the resource that lie in segment i's range
SegmentBytes(i) == Bytes(StartRange(i), Min(RangeStop(i), contentSize - 1))

\* C17 as stated: a worker that returned as a no-op (its start offset,
\* adjusted on resume, was at or past its stop offset) leaves a complete
\* segment: when its range holds bytes of the resource, its segment file
\* exists and holds every one of them. For every ordinal and on-disk
\* size, resuming or not; no file of an earlier run is in the way.
C17_NoopMeansComplete ==
    (server = "ranges" /\ stale = {}) =>
        \A i \in Segs :
            (workers[i].end = "noop" /\ SegmentBytes(i) # <<>>) =>
                /\ i \in exists
                /\ part[i] = SegmentBytes(i)

\* C18 as stated, for resources with at least one byte per segment: in a
\* Download that is not resuming, worker i is given start (i-1)*partSize
\* for i = 1 and (i-1)*partSize + 1 for i > 1, and stop i*partSize for
\* i < concurrency and totalSize for i = concurrency.
C18_PartitionAsStated ==
    (cpc = "wait" /\ ~Resume /\ PartSize >= 1) =>
        \A i \in Segs :
            /\ workers[i].rs =
                   IF i = 1 THEN (i - 1) * PartSize
                            ELSE (i - 1) * PartSize + 1
            /\ workers[i].re =
                   IF i < Concurrency THEN i * PartSize ELSE contentSize

\* C18 amended: worker i is given stop (i-1)*(partSize+1) + partSize
\* for i < concurrency and totalSize for i = concurrency, resuming or not;
\* and, when not resuming, start (i-1)*(partSize+1).
C18_PartitionAsCoded ==
    cpc = "wait" =>
        \A i \in Segs :
            /\ ~Resume => workers[i].rs = (i - 1) * (PartSize + 1)
            /\ workers[i].re =
                   IF i < Concurrency
                      THEN (i - 1) * (PartSize + 1) + PartSize
                      ELSE contentSize

\* C18's case: a middle segment of more than one byte, where the two
\* formulas differ: three workers were started for a resource of at least
\* three bytes
C18_Witness ==
    /\ cpc = "wait"
    /\ ~Resume
    /\ Concurrency = 3
    /\ PartSize >= 1
    /\ workers[2].pc = "start"
    /\ workers[2].re # 2 * PartSize

\* the first n bytes of the body of worker i's response
Fetched(i) ==
    SubSeq(Response(workers[i].rs, workers[i].re), 1, workers[i].n)

\* C19 as stated: while a Download's segment files are on disk (it waits
\* for its workers, or returned without merging), the file of a resuming
\* worker is what was on disk before (as many bytes as its start was
\* advanced by) followed by the bytes it fetched; and the file of a worker
\* that is not resuming and whose fetch completed holds the bytes it
\* fetched and nothing else, whatever was at that path before.
C19_SegmentFileOpenMode ==
    (cpc = "wait" \/ (cpc = "ret" /\ ~merged)) =>
        \A i \in Segs :
            /\ (Resume /\ workers[i].pc \in {"select", "copy", "done"}
                   /\ workers[i].end # "noop") =>
                   /\ Len(part[i]) =
                          workers[i].rs - StartRange(i) + workers[i].n
                   /\ SubSeq(part[i], Len(part[i]) - workers[i].n + 1,
                             Len(part[i])) = Fetched(i)
            /\ (~Resume /\ workers[i].end = "eof") => part[i] = Fetched(i)

\* the same when no file of an earlier run lies at a segment path (not a
\* claim's formula: the part of C19 that holds)
C19_WithoutOlderFile ==
    stale = {} => C19_SegmentFileOpenMode

\* C20 as stated: each round of merge appends the whole of the next
\* segment file, in the order 1..N, right after what it appended before,
\* and deletes that file; and when the last round is done the output file
\* is what merge appended and nothing else, whatever was at the output
\* path before, and no segment file is left.
C20_MergeOrderAndCleanup ==
    [][(cpc = "merge" /\ mi >= 1 /\ mi' # mi) =>
           /\ mi' = mi + 1
           /\ SubSeq(out', 1, moff') = SubSeq(out, 1, moff) \o part[mi]
           /\ mi \notin exists'
           /\ mi = Concurrency =>
                  /\ cpc' = "ret"
                  /\ Len(out') = moff'
                  /\ exists' = {}]_vars

\* the sizes of the segment files .part1 .. .part<i>, added up
RECURSIVE SumSizes(_)
SumSizes(i) == IF i = 0 THEN 0 ELSE SumSizes(i - 1) + DiskSize(i)

\* every worker of a multi-segment Download is back and no segment file
\* has been merged away yet
AllJoined ==
    /\ server = "ranges"
    /\ \A i \in Segs : workers[i].pc = "done"
    /\ \/ cpc = "wait"
       \/ cpc = "merge" /\ mi <= 1
       \/ cpc = "ret" /\ ~merged

\* C21 as stated, for a non-empty resource: in a multi-segment Download
\* the progress bar's count is at every moment at most the resource's
\* length, and once all workers have joined it is the sum of the sizes of
\* the N segment files.
C21_ProgressAccounting ==
    contentSize >= 1 =>
        /\ server = "ranges" => bar <= contentSize
        /\ AllJoined => bar = SumSizes(Concurrency)

\* the second half when no file of an earlier run lies at a segment path
\* (not a claim's formula: the part of C21 that holds)
C21_SumOfSizesWithoutOlderFile ==
    (contentSize >= 1 /\ stale = {} /\ AllJoined) =>
        bar = SumSizes(Concurrency)

====
